---- MODULE Spec2Model ----
(***************************************************************************)
(* Model of the two Flask search services of this repository:              *)
(*   src/app.py                              - /api/search over DDGS       *)
(*   src/deepseek_python_20251004_98e665.py  - /search, /google, /bing,    *)
(*                                             /baidu over three engines   *)
(* One HTTP request is in flight at a time (the handlers are sequential).  *)
(* Every call to an upstream (the DDGS backend, the googlesearch and       *)
(* baidusearch libraries, one Bing page fetch) is one step whose answer    *)
(* is chosen by the environment.                                           *)
(*                                                                         *)
(* Text values: a title is a pair <<text, n>>, n = 0 for a literal title   *)
(* and n = rank for the f-string "<Engine> Result {n}"; a description or   *)
(* abstract is a pair <<text, length>>; a url is a string.  Python's None  *)
(* is the value None.                                                      *)
(***************************************************************************)
EXTENDS Integers, Sequences, FiniteSets, TLC

\* ---------------------------------------------------------------- bounds
MaxItems == 2      \* items a library / backend call may deliver
MaxEntries == 2    \* <li class="b_algo"> entries on one Bing page
MaxServed == 2     \* entries the Bing server serves during one request
MaxFirst == 21     \* the page offset `first` is tracked up to this value
MaxAllItems == 1   \* as MaxItems, MaxEntries and MaxServed, for the
MaxAllEntries == 1 \*   requests to /search taken on their own (SearchSpec)
MaxAllServed == 2
MaxBingEntries == 3  \* as MaxEntries and MaxServed, for the requests to
MaxBingServed == 5   \*   /bing taken on their own (BingSpec)

\* ------------------------------------------------------ program constants
max_allowed_results == 50      \* app.py: SearchAPI.max_allowed_results
DefaultMaxResults == 20        \* app.py: max_results default / fallback
NumCap == 50                   \* min(int(num), 50)
DefaultNum == 10               \* request.args.get('num', 10)
ABSTRACT_MAX_LENGTH == 300
FirstStep == 10                \* first += 10

None == "None"
Absent == "<absent>"           \* a request parameter that was not sent

Min(a, b) == IF a < b THEN a ELSE b

\* ------------------------------------------------------------ SearchItem
SearchItem(t, u, d) == [title |-> t, url |-> u, description |-> d]

EmptyText == <<"", 0>>
NoneText == <<None, 0>>

\* Python truthiness of a text value (None and "" are falsy).
Truthy(text) == text[1] # "" /\ text[1] # None

\* search_item_to_dict
search_item_to_dict(item) ==
    [title   |-> item.title,
     link    |-> item.url,
     snippet |-> IF Truthy(item.description) THEN item.description ELSE EmptyText]

RECURSIVE MapToDict(_)
MapToDict(items) ==
    IF items = <<>> THEN <<>>
    ELSE <<search_item_to_dict(Head(items))>> \o MapToDict(Tail(items))

\* ------------------------------------------- items the libraries deliver
\* An item is a plain URL string, a dict or an object; `has` are the keys
\* (dict) or attributes (object) it carries.
RawItems ==
    { [shape |-> "str",  has |-> {}],
      [shape |-> "obj",  has |-> {"title", "url", "description", "abstract"}],
      [shape |-> "obj",  has |-> {"url", "description", "abstract"}],
      [shape |-> "dict", has |-> {"title", "url", "abstract"}],
      [shape |-> "dict", has |-> {}] }

RECURSIVE SeqsUpTo(_, _)
SeqsUpTo(S, n) ==
    IF n = 0 THEN {<<>>}
    ELSE LET shorter == SeqsUpTo(S, n - 1)
         IN  shorter \cup {Append(s, x) : s \in {t \in shorter : Len(t) = n - 1}, x \in S}

\* What one library / backend call does: it yields `items`, and then
\* either ends or raises (an import error is raises with no items).
LibraryOutcomesUpTo(n) == [items : SeqsUpTo(RawItems, n), raises : BOOLEAN]
LibraryOutcomes == LibraryOutcomesUpTo(MaxItems)

\* The value stored under a key / attribute of an item.
FieldValue(item, name) ==
    CASE name = "title"       -> <<"T", 0>>
      [] name = "url"         -> IF item.shape = "str" THEN "s" ELSE "u"
      [] name = "description" -> <<"d", 1>>
      [] name = "abstract"    -> <<"a", 1>>

\* item.<name> : raises AttributeError unless the object carries it
\* (a dict has no such attribute).
HasAttr(item, name) == item.shape = "obj" /\ name \in item.has

\* getattr(item, name, default)
getattr(item, name, default) ==
    IF HasAttr(item, name) THEN FieldValue(item, name) ELSE default

\* item.get(name, default) on a dict
dict_get(item, name, default) ==
    IF item.shape = "dict" /\ name \in item.has THEN FieldValue(item, name) ELSE default

\* ------------------------------------ GoogleSearchEngine.perform_search
\* Body of the for loop for the item at 0-based index i; [raised |-> TRUE]
\* when the attribute access raises.
GoogleItem(item, i) ==
    IF item.shape = "str"
    THEN [raised |-> FALSE,
          item |-> SearchItem(<<"Google Result", i + 1>>, FieldValue(item, "url"), EmptyText)]
    ELSE IF HasAttr(item, "title") /\ HasAttr(item, "url") /\ HasAttr(item, "description")
         THEN [raised |-> FALSE,
               item |-> SearchItem(FieldValue(item, "title"), FieldValue(item, "url"),
                                   FieldValue(item, "description"))]
         ELSE [raised |-> TRUE]

RECURSIVE GoogleLoop(_, _, _)
GoogleLoop(items, i, results) ==
    IF i >= Len(items) THEN [raised |-> FALSE, results |-> results]
    ELSE LET r == GoogleItem(items[i + 1], i)
         IN  IF r.raised THEN [raised |-> TRUE, results |-> results]
             ELSE GoogleLoop(items, i + 1, Append(results, r.item))

\* As GooglePerformSearch, with the records collected before the
\* exception returned.
GooglePerformSearchPartial(raw, num) == GoogleLoop(raw.items, 0, <<>>).results

\* try: ... return results / except Exception: return []
GooglePerformSearch(raw, num) ==
    LET r == GoogleLoop(raw.items, 0, <<>>)
    IN  IF r.raised \/ raw.raises THEN <<>> ELSE r.results

\* ------------------------------------- BaiduSearchEngine.perform_search
BaiduItem(item, i) ==
    CASE item.shape = "str" ->
            SearchItem(<<"Baidu Result", i + 1>>, FieldValue(item, "url"), EmptyText)
      [] item.shape = "dict" ->
            SearchItem(dict_get(item, "title", <<"Baidu Result", i + 1>>),
                       dict_get(item, "url", ""),
                       dict_get(item, "abstract", EmptyText))
      [] OTHER ->
            SearchItem(getattr(item, "title", <<"Baidu Result", i + 1>>),
                       getattr(item, "url", ""),
                       getattr(item, "abstract", EmptyText))

RECURSIVE BaiduLoop(_, _, _)
BaiduLoop(items, i, results) ==
    IF i >= Len(items) THEN results
    ELSE BaiduLoop(items, i + 1, Append(results, BaiduItem(items[i + 1], i)))

BaiduPerformSearch(raw, num) ==
    IF raw.raises THEN <<>> ELSE BaiduLoop(raw.items, 0, <<>>)

\* --------------------------------------------- SearchAPI.perform_search
\* Records of the DDGS backend: dicts with a subset of title/href/body.
DdgsItems ==
    { [has |-> {"title", "href", "body"}],
      [has |-> {"href"}],
      [has |-> {}] }

DdgsOutcomes == [items : SeqsUpTo(DdgsItems, MaxItems), raises : BOOLEAN]

DdgsValue(name) ==
    CASE name = "title" -> <<"T", 0>>
      [] name = "href"  -> "u"
      [] name = "body"  -> <<"b", 1>>

\* result.get(name, default)
ddgs_get(item, name, default) ==
    IF name \in item.has THEN DdgsValue(name) ELSE default

RECURSIVE DdgsLoop(_, _)
DdgsLoop(items, results) ==
    IF items = <<>> THEN results
    ELSE DdgsLoop(Tail(items),
                  Append(results,
                         [title       |-> ddgs_get(Head(items), "title", EmptyText),
                          url         |-> ddgs_get(Head(items), "href", ""),
                          description |-> ddgs_get(Head(items), "body", EmptyText),
                          rank        |-> Len(results) + 1]))

\* The limit SearchAPI.perform_search hands to ddgs.text.
ClampToMax(max_results) ==
    IF max_results > max_allowed_results THEN max_allowed_results ELSE max_results

\* As SearchAPIPerformSearch, with the exception swallowed and the records
\* collected so far returned.
SearchAPIPerformSearchSwallow(outcome, max_results) ==
    [raised |-> FALSE, results |-> DdgsLoop(outcome.items, <<>>)]

\* try: ... return results / except Exception: log; raise
SearchAPIPerformSearch(outcome, max_results) ==
    IF outcome.raises THEN [raised |-> TRUE, results |-> <<>>]
    ELSE [raised |-> FALSE, results |-> DdgsLoop(outcome.items, <<>>)]

\* ------------------------------------------ BingSearchEngine._parse_html
\* One <li class="b_algo">: whether it has an <h2>, the h2's text, its <a>
\* ("none": no <a>; "nohref": an <a> without href; else the href) and the
\* text of its <p> (None: no <p>).
BingEntries ==
    { [h2 |-> TRUE,  title |-> <<"T1", 0>>, a |-> "u1",     p |-> <<"p1", 301>>],
      [h2 |-> TRUE,  title |-> <<"", 0>>,   a |-> "none",   p |-> NoneText],
      [h2 |-> FALSE, title |-> <<"", 0>>,   a |-> "u3",     p |-> <<"p3", 40>>],
      [h2 |-> TRUE,  title |-> <<"T4", 0>>, a |-> "nohref", p |-> <<"p4", 40>>] }

\* What one fetch gives: "fail" (the request or the parse raises), or a
\* document with or without the <ol id="b_results"> container, its entries
\* and its "Next page" control ("none", "nohref": no usable href, "href").
BingPagesUpTo(n) ==
    [status : {"ok", "nocontainer", "fail"},
     entries : SeqsUpTo(BingEntries, n),
     next : {"none", "nohref", "href"}]

\* abstract[:ABSTRACT_MAX_LENGTH]
Truncate(abstract) ==
    IF ABSTRACT_MAX_LENGTH # 0 /\ abstract[2] > ABSTRACT_MAX_LENGTH
    THEN <<abstract[1], ABSTRACT_MAX_LENGTH>>
    ELSE abstract

\* As ParseEntries, with the loop left at the first entry that is skipped.
RECURSIVE ParseEntriesBreak(_, _, _)
ParseEntriesBreak(entries, rank_start, list_data) ==
    IF entries = <<>> THEN list_data
    ELSE LET li == Head(entries)
         IN  IF ~li.h2 \/ li.a = "nohref" THEN list_data
             ELSE ParseEntriesBreak(Tail(entries), rank_start + 1,
                      Append(list_data,
                             SearchItem(IF Truthy(li.title) THEN li.title
                                        ELSE <<"Bing Result", rank_start + 1>>,
                                        IF li.a = "none" THEN "" ELSE li.a,
                                        IF li.p = NoneText THEN EmptyText ELSE li.p)))

\* The for loop over the entries (lines 126-151): an entry without <h2> and
\* an entry whose extraction raises are skipped.
RECURSIVE ParseEntries(_, _, _)
ParseEntries(entries, rank_start, list_data) ==
    IF entries = <<>> THEN list_data
    ELSE LET li == Head(entries)
         IN  IF ~li.h2 THEN ParseEntries(Tail(entries), rank_start, list_data)
             ELSE IF li.a = "nohref"     \* h2.a["href"] raises KeyError
             THEN ParseEntries(Tail(entries), rank_start, list_data)
             ELSE LET url == IF li.a = "none" THEN "" ELSE li.a
                      abstract == Truncate(IF li.p = NoneText THEN EmptyText ELSE li.p)
                      rank == rank_start + 1
                      title == IF Truthy(li.title) THEN li.title
                               ELSE <<"Bing Result", rank>>
                  IN  ParseEntries(Tail(entries), rank,
                                   Append(list_data, SearchItem(title, url, abstract)))

\* As ParseHtml, with the entries parsed before the exception returned.
ParseHtmlKeepsData(page, rank_start) ==
    CASE page.status = "nocontainer" -> [data |-> <<>>, next_url |-> None]
      [] OTHER ->
            [data |-> ParseEntries(page.entries, rank_start, <<>>),
             next_url |-> IF page.status = "ok" /\ page.next = "href" THEN "next" ELSE None]

\* _parse_html: (data, next_url)
ParseHtml(page, rank_start) ==
    CASE page.status = "fail"        -> [data |-> <<>>, next_url |-> None]
      [] page.status = "nocontainer" -> [data |-> <<>>, next_url |-> None]
      [] OTHER ->
            [data |-> ParseEntries(page.entries, rank_start, <<>>),
             next_url |-> IF page.next = "href" THEN "next" ELSE None]

\* As PySlice, without the truncation.
PySliceAll(list, n) == list

\* list_result[:num_results]
PySlice(list, n) ==
    IF n >= 0 THEN SubSeq(list, 1, Min(n, Len(list)))
    ELSE SubSeq(list, 1, IF Len(list) + n > 0 THEN Len(list) + n ELSE 0)

\* ------------------------------------------------------------- requests
Routes == {"/api/search", "/search", "/google", "/bing", "/baidu"}
QArgs == {Absent, "", " ", "py"}
NumVals == {-1, 0, 1, 2, 51}
NumArgs == {[kind |-> "absent", val |-> 0], [kind |-> "bad", val |-> 0]}
           \cup {[kind |-> "int", val |-> v] : v \in NumVals}
EngineArgs == {Absent, "all", "google", "bing", "baidu", "Bing", "yahoo"}

\* str.strip()
strip(text) == IF text = " " THEN "" ELSE text

\* str.lower()
lower(text) == IF text = "Bing" THEN "bing" ELSE text

\* request.args.get(name, default)
args_get(arg, default) == IF arg = Absent THEN default ELSE arg

VARIABLES
    pc,            \* "idle", "google", "bing", "baidu", "done"
    route, qArg, numArg,                \* the request being served
    query, engine, num_results,         \* the handler's locals
    result, engines_used,               \* /search: the payload being built
    list_result, next_url, first,       \* BingSearchEngine.perform_search locals
    response,                           \* [status, body] once pc = "done"
    invoked,       \* history: <<[engine, limit]>> of the provider calls made
    returned,      \* history: engine -> what its perform_search returned
    lastPage,      \* history: status, "Next page" control and number of
                   \*   well-formed entries of the latest Bing page fetched,
                   \*   and whether the number of pages fetched so far is odd
    wfLog,         \* history: the Bing entries with an <h2> and a usable
                   \*   link served on pages that parsed, in order served
    failed,        \* history: the engines whose upstream raised
    served,        \* history: number of Bing entries served so far
    input, output  \* history: the library call or provider function last
                   \*   observed on its own: its arguments, its value

vars == <<pc, route, qArg, numArg, query, engine, num_results,
          result, engines_used, list_result, next_url, first, response,
          invoked, returned, lastPage, wfLog, failed, served, input, output>>

request == <<route, qArg, numArg, query, engine, num_results>>

Empty == [e \in {} |-> 0]     \* the empty dict
NoResponse == [status |-> 0, body |-> Empty]
NoPage == [status |-> "none", next |-> "none", wf |-> 0, odd |-> FALSE]
NoInput == [fn |-> "none"]

Init ==
    /\ pc = "idle"
    /\ route = "/" /\ qArg = Absent /\ numArg = [kind |-> "absent", val |-> 0]
    /\ query = "" /\ engine = "all" /\ num_results = DefaultNum
    /\ result = Empty /\ engines_used = <<>>
    /\ list_result = <<>> /\ next_url = None /\ first = 1
    /\ response = NoResponse
    /\ invoked = <<>> /\ returned = Empty /\ lastPage = NoPage
    /\ wfLog = <<>> /\ failed = {} /\ served = 0
    /\ input = NoInput /\ output = <<>>

\* ------------------------------------------------- the multi-engine app
\* `engine in [name, 'all']` on /search; the single-engine routes call
\* their own engine.
Selected(r, eng, name) ==
    IF r = "/search" THEN eng \in {name, "all"} ELSE r = "/" \o name

\* The first provider call at or after position `from` of the handler
\* (google, bing, baidu in program order); "done" when none is left.
StageFrom(r, eng, from) ==
    CASE from <= 1 /\ Selected(r, eng, "google") -> "google"
      [] from <= 2 /\ Selected(r, eng, "bing")   -> "bing"
      [] from <= 3 /\ Selected(r, eng, "baidu")  -> "baidu"
      [] OTHER -> "done"

\* jsonify(...) at the end of the handler.
Jsonify(r, q, res, used) ==
    IF r = "/search"
    THEN [status |-> 200,
          body |-> [query |-> q, engines_used |-> used, engines |-> res]]
    ELSE LET name == used[1]
         IN  [status |-> 200,
              body |-> [query |-> q, engine |-> name,
                        count |-> res[name].count, results |-> res[name].results]]

\* result[name] = {'count': len(results), 'results': [...]}
Record(res, name, results) ==
    (name :> [count |-> Len(results), results |-> MapToDict(results)]) @@ res

\* The handler runs on from position `from` with the payload (res, used)
\* up to its next provider call, which it makes, or to its return.
Continue(r, q, eng, num, from, res, used, calls) ==
    LET stage == StageFrom(r, eng, from)
    IN  /\ pc' = stage
        /\ invoked' = IF stage = "done" THEN calls
                      ELSE Append(calls, [engine |-> stage, limit |-> num])
        /\ result' = res
        /\ engines_used' = used
        /\ response' = IF stage = "done" THEN Jsonify(r, q, res, used) ELSE NoResponse
        \* entering bing_engine.perform_search: lines 100-102
        /\ list_result' = <<>>
        /\ first' = 1
        /\ next_url' = IF stage = "bing" THEN "search?q=" ELSE None

\* min(int(request.args.get('num', 10)), 50); int() raises ValueError on "bad".
ParseNum(arg) ==
    IF arg.kind = "bad" THEN [raised |-> TRUE, value |-> 0]
    ELSE [raised |-> FALSE,
          value |-> Min(IF arg.kind = "absent" THEN DefaultNum ELSE arg.val, NumCap)]

\* An exception no handler catches: Flask answers 500.
Unhandled == [status |-> 500, body |-> [error |-> "Internal Server Error"]]

MissingQuery == [status |-> 400, body |-> [error |-> "Missing query parameter \"q\""]]

\* The handler returns without calling a provider.
ReturnEarly(resp) ==
    /\ pc' = "done" /\ response' = resp
    /\ result' = Empty /\ engines_used' = <<>> /\ invoked' = <<>>
    /\ list_result' = <<>> /\ next_url' = None /\ first' = 1

\* search / google_only / bing_only / baidu_only, up to the first provider call.
MultiReceive(r, q, n, e) ==
    LET qv  == args_get(q, "")
        ev  == IF r = "/search" THEN lower(args_get(e, "all")) ELSE "all"
        num == ParseNum(n)
    IN  /\ pc = "idle"
        /\ r \in Routes \ {"/api/search"}
        /\ route' = r /\ qArg' = q /\ numArg' = n
        /\ query' = qv /\ engine' = ev
        /\ UNCHANGED <<returned, lastPage, wfLog, failed, served, input, output>>
        /\ IF num.raised
           THEN /\ num_results' = num_results
                /\ ReturnEarly(Unhandled)
           ELSE /\ num_results' = num.value
                /\ IF qv = ""
                   THEN ReturnEarly(MissingQuery)
                   ELSE Continue(r, qv, ev, num.value, 1, Empty, <<>>, <<>>)

\* google_engine.perform_search(query, num_results) and what follows it.
GoogleStage(outcome) ==
    /\ pc = "google"
    /\ LET results == GooglePerformSearch(outcome, num_results)
       IN  /\ failed' = IF outcome.raises THEN failed \cup {"google"} ELSE failed
           /\ returned' = ("google" :> results) @@ returned
           /\ Continue(route, query, engine, num_results, 2,
                       Record(result, "google", results), Append(engines_used, "google"),
                       invoked)
    /\ UNCHANGED <<request, lastPage, wfLog, served, input, output>>

\* baidu_engine.perform_search(query, num_results) and what follows it.
BaiduStage(outcome) ==
    /\ pc = "baidu"
    /\ LET results == BaiduPerformSearch(outcome, num_results)
       IN  /\ failed' = IF outcome.raises THEN failed \cup {"baidu"} ELSE failed
           /\ returned' = ("baidu" :> results) @@ returned
           /\ Continue(route, query, engine, num_results, 4,
                       Record(result, "baidu", results), Append(engines_used, "baidu"),
                       invoked)
    /\ UNCHANGED <<request, lastPage, wfLog, served, input, output>>

\* while len(list_result) < num_results
BingLoopTest(list, num) == Len(list) < num

\* bing_engine.perform_search returns `results`; the handler runs on.
BingDone(results) ==
    /\ returned' = ("bing" :> results) @@ returned
    /\ Continue(route, query, engine, num_results, 3,
                Record(result, "bing", results), Append(engines_used, "bing"),
                invoked)

\* first += 10 (tracked up to MaxFirst; _parse_html never reads it)
BumpFirst(f) == IF f + FirstStep > MaxFirst THEN f ELSE f + FirstStep

\* if data: list_result.extend(data)
Extend(list, data) == IF data # <<>> THEN list \o data ELSE list

\* if not next_url: break
BreakTest(url) == url = None

\* The entries of a page that have an <h2> and, when they have a link, a
\* link with an href.
WellFormed(li) == li.h2 /\ li.a # "nohref"

\* One iteration of the while loop (lines 104-110): fetch and parse a page.
BingFetch(page, budget) ==
    /\ pc = "bing"
    /\ query # ""
    /\ BingLoopTest(list_result, num_results)
    /\ served + Len(page.entries) <= budget
    /\ LET r == ParseHtml(page, Len(list_result))
           list == Extend(list_result, r.data)
       IN  /\ served' = served + Len(page.entries)
           /\ lastPage' = [status |-> page.status, next |-> page.next,
                            wf |-> IF page.status = "ok"
                                   THEN Len(SelectSeq(page.entries, WellFormed)) ELSE 0,
                            odd |-> ~lastPage.odd]
           /\ failed' = IF page.status = "fail" THEN failed \cup {"bing"} ELSE failed
           /\ wfLog' = IF page.status = "ok"
                       THEN wfLog \o SelectSeq(page.entries, WellFormed)
                       ELSE wfLog
           /\ IF BreakTest(r.next_url)
              THEN BingDone(PySlice(list, num_results))        \* break; return
              ELSE /\ list_result' = list
                   /\ next_url' = r.next_url
                   /\ first' = BumpFirst(first)
                   /\ pc' = "bing"
                   /\ UNCHANGED <<result, engines_used, response, invoked, returned>>
    /\ UNCHANGED <<request, input, output>>

\* The loop test fails (or the query is empty): return list_result[:num_results].
BingReturn ==
    /\ pc = "bing"
    /\ query = "" \/ ~BingLoopTest(list_result, num_results)
    /\ BingDone(IF query = "" THEN <<>> ELSE PySlice(list_result, num_results))
    /\ UNCHANGED <<request, lastPage, wfLog, failed, served, input, output>>

\* ------------------------------------------------------- app.py: search
\* request.args.get('max_results', 20, type=int): the default when the
\* parameter is absent or does not convert.
ParseMaxResults(arg) ==
    IF arg.kind = "int" THEN arg.val ELSE DefaultMaxResults

QueryRequired ==
    [status |-> 400,
     body |-> [success |-> FALSE, error |-> "Search query (q) parameter is required"]]

InternalError ==
    [status |-> 500, body |-> [success |-> FALSE, error |-> "Internal server error"]]

\* if max_results <= 0: max_results = 20
DefaultIfNonPositive(max_results) ==
    IF max_results <= 0 THEN DefaultMaxResults ELSE max_results

\* The response of the /api/search handler once perform_search returned or
\* raised (the try / except of lines 46-74).
ApiResponse(qv, max_results, r) ==
    IF r.raised THEN InternalError
    ELSE [status |-> 200,
          body |-> [success |-> TRUE, query |-> qv,
                    max_results |-> max_results,
                    results_count |-> Len(r.results),
                    results |-> r.results]]

\* The /api/search handler; `outcome` is what the DDGS backend does when called.
ApiSearch(q, n, outcome) ==
    LET qv == strip(args_get(q, ""))
        mr == ParseMaxResults(n)
        max_results == DefaultIfNonPositive(mr)
        r == SearchAPIPerformSearch(outcome, max_results)
    IN  /\ pc = "idle"
        /\ route' = "/api/search" /\ qArg' = q /\ numArg' = n
        /\ query' = qv /\ engine' = "ddgs"
        /\ pc' = "done"
        /\ UNCHANGED <<result, engines_used, list_result, next_url, first,
                       lastPage, wfLog, served>>
        /\ IF qv = ""
           THEN /\ num_results' = mr
                /\ response' = QueryRequired
                /\ UNCHANGED <<invoked, returned, failed, input, output>>
           ELSE /\ num_results' = max_results
                /\ invoked' = <<[engine |-> "ddgs", limit |-> ClampToMax(max_results)]>>
                /\ failed' = IF outcome.raises THEN {"ddgs"} ELSE {}
                /\ input' = [fn |-> "ddgs.text", outcome |-> outcome,
                             num |-> ClampToMax(max_results)]
                /\ output' = r.results
                /\ returned' = IF r.raised THEN Empty ELSE ("ddgs" :> r.results)
                /\ response' = ApiResponse(qv, max_results, r)

\* ------------------------------------- provider functions on their own
handler == <<pc, route, qArg, numArg, query, engine, num_results, result,
             engines_used, list_result, next_url, first, response, invoked,
             returned, lastPage, wfLog, failed, served>>

\* GoogleSearchEngine().perform_search(query, num) with the library
\* delivering `outcome`.
CallGoogle(outcome, num) ==
    /\ input = NoInput
    /\ input' = [fn |-> "google", outcome |-> outcome, num |-> num]
    /\ output' = GooglePerformSearch(outcome, num)
    /\ UNCHANGED handler

\* BaiduSearchEngine().perform_search(query, num) with the library
\* delivering `outcome`.
CallBaidu(outcome, num) ==
    /\ input = NoInput
    /\ input' = [fn |-> "baidu", outcome |-> outcome, num |-> num]
    /\ output' = BaiduPerformSearch(outcome, num)
    /\ UNCHANGED handler

\* BingSearchEngine()._parse_html(url, rank_start) with the server
\* answering `page`; output is the data half of the returned pair.
CallParseHtml(page, rank_start) ==
    /\ input = NoInput
    /\ input' = [fn |-> "_parse_html", page |-> page, rank_start |-> rank_start]
    /\ output' = ParseHtml(page, rank_start).data
    /\ UNCHANGED handler

UnitNext ==
    \/ \E o \in LibraryOutcomes, num \in 1..MaxItems : CallGoogle(o, num)
    \/ \E o \in LibraryOutcomes, num \in 1..MaxItems : CallBaidu(o, num)
    \/ \E page \in BingPagesUpTo(MaxEntries + 1), rank \in 0..MaxItems :
          CallParseHtml(page, rank)

UnitSpec == Init /\ [][UnitNext]_vars

\* ----------------------------------------------------------------- Next
MultiQArgs == {Absent, "", "py"}

Next ==
    \/ \E r \in Routes, q \in MultiQArgs, n \in NumArgs, e \in EngineArgs :
          MultiReceive(r, q, n, e)
    \/ \E q \in QArgs, n \in NumArgs, o \in DdgsOutcomes : ApiSearch(q, n, o)
    \/ \E o \in LibraryOutcomes : GoogleStage(o)
    \/ \E page \in BingPagesUpTo(MaxEntries) : BingFetch(page, MaxServed)
    \/ BingReturn
    \/ \E o \in LibraryOutcomes : BaiduStage(o)

Spec == Init /\ [][Next]_vars

\* Requests to /api/search only.
ApiNext == \E q \in QArgs, n \in NumArgs, o \in DdgsOutcomes : ApiSearch(q, n, o)

ApiSpec == Init /\ [][ApiNext]_vars

\* Requests to /bing only.
BingNext ==
    \/ \E q \in MultiQArgs, n \in NumArgs : MultiReceive("/bing", q, n, Absent)
    \/ \E page \in BingPagesUpTo(MaxBingEntries) : BingFetch(page, MaxBingServed)
    \/ BingReturn

BingSpec == Init /\ [][BingNext]_vars

\* The handler's thread keeps running: a step that can be taken is taken.
FairBingSpec == BingSpec /\ WF_vars(BingNext)

\* Requests to /search only.
SearchNext ==
    \/ \E q \in MultiQArgs, n \in NumArgs, e \in EngineArgs : MultiReceive("/search", q, n, e)
    \/ \E o \in LibraryOutcomesUpTo(MaxAllItems) : GoogleStage(o)
    \/ \E page \in BingPagesUpTo(MaxAllEntries) : BingFetch(page, MaxAllServed)
    \/ BingReturn
    \/ \E o \in LibraryOutcomesUpTo(MaxAllItems) : BaiduStage(o)

SearchSpec == Init /\ [][SearchNext]_vars

\* =============================================================== claims
\* The record an entry with an <h2> and a usable link is to give: its title
\* (a "Bing Result <rank>" placeholder when the title is empty), its link
\* target ("" without a link) and its abstract cut to ABSTRACT_MAX_LENGTH.
RecordOf(rec, li) ==
    /\ rec.url = (IF li.a = "none" THEN "" ELSE li.a)
    /\ rec.description = (IF li.p = NoneText THEN EmptyText
                          ELSE <<li.p[1], Min(li.p[2], ABSTRACT_MAX_LENGTH)>>)
    /\ IF li.title[1] = "" THEN rec.title[1] = "Bing Result" ELSE rec.title = li.title

\* recs are the records of the first n of the entries, in order.
FirstRecordsOf(recs, entries, n) ==
    /\ Len(recs) = n
    /\ n <= Len(entries)
    /\ \A i \in 1..n : RecordOf(recs[i], entries[i])

BingReturned == pc = "done" /\ route = "/bing" /\ "bing" \in DOMAIN returned

\* Every page fetched so far was a results page: fetched and parsed
\* without error, with its results container.
ChainOfResultPages == lastPage.status \in {"none", "ok"}

\* C3: on a chain of result pages and a limit >= 1 the Bing walker returns
\* exactly the first min(limit, number of well-formed entries) well-formed
\* entries of the pages in page order then document order; it stops short
\* of the limit only on a page without a next-page link, and every page it
\* fetches is fetched while the collected count is below the limit.
C3_PaginationPrefix ==
    /\ (lastPage.status # "none" /\ pc \in {"bing", "done"})
          => Len(wfLog) - lastPage.wf < num_results
    /\ (BingReturned /\ ChainOfResultPages /\ num_results >= 1)
          => /\ FirstRecordsOf(returned["bing"], wfLog, Min(num_results, Len(wfLog)))
             /\ Len(wfLog) < num_results => lastPage.next # "href"

\* C3 witness: two pages, the first with one well-formed entry and the
\* second with three, and a limit of 2: the walk is cut to the first 2.
C3_Witness ==
    /\ BingReturned /\ ChainOfResultPages
    /\ num_results = 2 /\ Len(wfLog) = 4 /\ lastPage.wf = 3
    /\ Len(returned["bing"]) = 2

\* C4: when the fetch or parse of a Bing page fails, the call still returns
\* (the response is a 200), the failed page is the last one fetched, and the
\* result is exactly the records of the pages before it, cut to the limit
\* (nothing when no entry was collected before).
C4_PartialOnFailure ==
    "bing" \in failed
       => /\ pc = "done"
          /\ lastPage.status = "fail"
          /\ response.status = 200
          /\ FirstRecordsOf(returned["bing"], wfLog, Min(num_results, Len(wfLog)))
          /\ response.body.count = Len(returned["bing"])

\* C4 witness: the second page fails after the first gave one record.
C4_Witness ==
    /\ BingReturned /\ "bing" \in failed
    /\ Len(wfLog) = 1 /\ Len(returned["bing"]) = 1 /\ num_results >= 2

\* C8: parsing a Bing results page with n entries of which m are malformed
\* (no <h2>, or a link without href) yields exactly the records of the
\* n - m well-formed entries, in document order.
C8_MalformedSkipped ==
    (input.fn = "_parse_html" /\ input.page.status = "ok")
       => LET good == SelectSeq(input.page.entries, WellFormed)
          IN  FirstRecordsOf(output, good, Len(good))

\* C8 witness: a page of three entries whose second is malformed and whose
\* third is well-formed gives two records.
C8_Witness ==
    /\ input.fn = "_parse_html" /\ input.page.status = "ok"
    /\ Len(input.page.entries) = 3
    /\ WellFormed(input.page.entries[1])
    /\ ~WellFormed(input.page.entries[2])
    /\ WellFormed(input.page.entries[3])
    /\ Len(output) = 2

\* The record the specification asks of the item at 1-based position i: a
\* plain URL string gives the placeholder title, that url and an empty
\* description; any other item gives its fields, the placeholder for a
\* missing title and "" for a missing url or description.
Normalised(rec, item, i, placeholder, titleKey, urlKey, descKey) ==
    IF item.shape = "str"
    THEN rec = SearchItem(<<placeholder, i>>, "s", EmptyText)
    ELSE /\ rec.title = (IF titleKey \in item.has THEN <<"T", 0>> ELSE <<placeholder, i>>)
         /\ rec.url = (IF urlKey \in item.has THEN "u" ELSE "")
         /\ descKey \notin item.has => rec.description = EmptyText

\* C9: in the Google and Baidu providers a missing field never aborts the
\* query: when the library does not raise, every item it delivered is
\* returned, normalised as above.
C9_MissingFieldsFailSoft ==
    (input.fn \in {"google", "baidu"} /\ ~input.outcome.raises)
       => /\ Len(output) = Len(input.outcome.items)
          /\ \A i \in 1..Len(output) :
                IF input.fn = "google"
                THEN Normalised(output[i], input.outcome.items[i], i, "Google Result",
                                "title", "url", "description")
                ELSE Normalised(output[i], input.outcome.items[i], i, "Baidu Result",
                                "title", "url", "abstract")

\* C9 restricted to the Baidu provider (which does fail soft).
BaiduFailsSoft == input.fn = "baidu" => C9_MissingFieldsFailSoft

\* The /api/search handler answered a request that has a query.
ApiAnswered == pc = "done" /\ route = "/api/search" /\ query # ""

\* C7: on /api/search with a query, a backend that raises (before or while
\* yielding) gives the 500 with the fixed generic message and nothing
\* else; a backend that yields nothing without raising gives a 200 success
\* with results_count 0.
C7_FailureVersusEmpty ==
    ApiAnswered
       => /\ input.outcome.raises => response = InternalError
          /\ (~input.outcome.raises /\ input.outcome.items = <<>>)
                => /\ response.status = 200
                   /\ response.body.success
                   /\ response.body.results_count = 0
                   /\ response.body.results = <<>>

\* C7 witness: the backend raises after yielding a record.
C7_Witness ==
    /\ ApiAnswered
    /\ input.outcome.raises /\ Len(input.outcome.items) = 1
    /\ response.status = 500

Engines == <<"google", "bing", "baidu">>

\* An all-engines request to /search that passed validation was answered.
AllAnswered ==
    /\ pc = "done" /\ route = "/search" /\ engine = "all"
    /\ query # "" /\ numArg.kind # "bad"

\* The payload entry of provider e holds exactly the records its
\* perform_search returned, with count their number.
PayloadHolds(e) ==
    /\ e \in DOMAIN response.body.engines
    /\ e \in DOMAIN returned
    /\ response.body.engines[e].results = MapToDict(returned[e])
    /\ response.body.engines[e].count = Len(returned[e])

\* The providers were called in the fixed order google, bing, baidu.
FixedOrder ==
    /\ Len(invoked) = 3
    /\ \A i \in 1..3 : invoked[i].engine = Engines[i]
    /\ response.body.engines_used = Engines

\* C5 as claimed: on an all-engines request the three providers are called
\* in the fixed order, the response is no error, each provider that did not
\* fail has its records in the payload, and each provider that failed has
\* count 0 and an empty result list.
C5_AsClaimed ==
    AllAnswered
       => /\ response.status = 200
          /\ FixedOrder
          /\ \A i \in 1..3 :
                IF Engines[i] \in failed
                THEN /\ response.body.engines[Engines[i]].count = 0
                     /\ response.body.engines[Engines[i]].results = <<>>
                ELSE PayloadHolds(Engines[i])

\* C5 amended: as claimed, except that a Bing walk that fails keeps the
\* records of the pages before the failing one (cut to the limit): its
\* payload entry is empty only when nothing was collected before.
C5_FailureIsolated ==
    AllAnswered
       => /\ response.status = 200
          /\ FixedOrder
          /\ \A i \in 1..3 : PayloadHolds(Engines[i])
          /\ \A e \in {"google", "baidu"} \cap failed :
                /\ response.body.engines[e].count = 0
                /\ response.body.engines[e].results = <<>>
          /\ "bing" \in failed
                => response.body.engines["bing"].count = Min(num_results, Len(wfLog))

\* C5 witness: Google's library raises after an item, the second Bing page
\* fails after the first gave a record, and Baidu delivers one item.
C5_Witness ==
    /\ AllAnswered
    /\ failed = {"google", "bing"}
    /\ response.body.engines["google"].count = 0
    /\ response.body.engines["bing"].count = 1
    /\ response.body.engines["baidu"].count = 1

\* C1: the number of records returned to the caller never exceeds the
\* limit handed to the provider, whatever the upstream delivers.
C1_CountWithinLimit ==
    \A i \in 1..Len(invoked) :
       invoked[i].engine \in DOMAIN returned
          => Len(returned[invoked[i].engine]) <= invoked[i].limit

\* C1 restricted to the Bing provider and limits >= 0 (the walker truncates).
BingCountWithinLimit ==
    ("bing" \in DOMAIN returned /\ num_results >= 0)
       => Len(returned["bing"]) <= num_results

\* C2: on every search endpoint a requested limit above 50 reaches the
\* provider as 50 and a requested limit that is zero or negative reaches
\* it as the default 20.
C2_LimitClamped ==
    \A i \in 1..Len(invoked) :
       numArg.kind = "int"
          => /\ numArg.val > NumCap => invoked[i].limit = NumCap
             /\ numArg.val <= 0 => invoked[i].limit = DefaultMaxResults

\* C2 restricted to /api/search.
ApiLimitClamped == route = "/api/search" => C2_LimitClamped

\* C6: a request whose q is missing or empty gets a 400 whose message names
\* the parameter, whatever the other parameters are, and no provider is
\* called for it.
C6_MissingQueryIs400 ==
    (pc = "done" /\ qArg \in {Absent, ""})
       => /\ response.status = 400
          /\ response.body.error \in {MissingQuery.body.error, QueryRequired.body.error}
          /\ invoked = <<>>

\* C6 restricted to /api/search.
ApiMissingQueryIs400 == route = "/api/search" => C6_MissingQueryIs400

\* C10: every call of the Bing walker eventually returns.
C10_WalkerReturns == (pc = "bing") ~> (pc # "bing")

====
